---- MODULE Spec2Model ----
(***************************************************************************)
(* Model of aiter/mla.py: the stage-2 online-softmax reducer               *)
(* (_fwd_kernel_stage2_asm), the split-count heuristic (get_meta_param)    *)
(* and the host entry points mla_decode_fwd / mla_prefill_fwd.             *)
(*                                                                         *)
(* Real arithmetic is exact.  A real number is a normalised fraction       *)
(* [n, d] with d > 0; the float NaN produced by 0.0 / 0.0 is [0, 0].       *)
(* A log-domain quantity (a log-sum-exp, the running maximum e_max) is     *)
(* held by its exponential: the natural number W stands for ln W, and 0    *)
(* stands for -infinity.  Then maximum(ln a, ln b) = ln Max(a, b) and      *)
(* exp(ln a - ln b) = a / b, exactly.                                      *)
(***************************************************************************)
EXTENDS Integers, Sequences, FiniteSets, TLC

\* ------------------------------------------------------------------ bounds
MaxKvLen == 66          \* longest KV range of one sequence
MaxWeight == 2          \* exp(logit) of a KV position cycles through 1..kv_weight <= MaxWeight
MaxValue == 1           \* a value lane of a KV position cycles through 0..kv_value <= MaxValue
Lv == 2                 \* value head dimension of the modelled unit
MaxSmallMgc == 3        \* SpecSplit also draws mgc from 1..MaxSmallMgc
MaxBs == 3              \* batch sizes of get_meta_param calls
MaxTotalKv == 30        \* total_kv of get_meta_param calls
MaxCu == 4              \* compute units get_cu_num() may report
MaxSplitsArg == 3       \* an explicit num_kv_splits is in 1..MaxSplitsArg
MaxSeqlenQ == 2         \* max_seqlen_q is in 1..MaxSeqlenQ
MaxHostBs == 2          \* batch sizes of entry-point calls
MaxHostKv == 1          \* KV length of each sequence of an entry-point call
MaxHostCu == 2          \* compute units during entry-point calls
MaxGridBs == 2          \* batch size of a stage-2 launch grid
MaxQLen == 2            \* queries of one sequence of a launch grid
GridHeads == 2          \* heads of a launch grid

\* ------------------------------------------------------- program constants
MaxSplits == 16         \* range(1, 17)
MgcDefault == 16        \* get_mgc = {16: 16, 128: 16}
MgcSingleToken == 64    \* mgc = 64
OverheadTenths == 841   \* overhead = 84.1

\* num_kv_splits=None, held as an integer no caller passes
None == 0

\* a buffer that is not allocated (or a value not returned) yet
NoBuffer == [alias_o |-> FALSE, shape |-> <<>>]

\* --------------------------------------------------------- exact fractions
RECURSIVE GCD(_, _)
GCD(a, b) == IF b = 0 THEN a ELSE GCD(b, a % b)

Abs(x) == IF x < 0 THEN -x ELSE x

Max(a, b) == IF a >= b THEN a ELSE b

Min(a, b) == IF a <= b THEN a ELSE b

NaN == [n |-> 0, d |-> 0]

IsNaN(x) == x.d = 0

Frac(n, d) ==
    IF d = 0 THEN NaN
    ELSE LET g == GCD(Abs(n), Abs(d))
             s == IF d < 0 THEN -1 ELSE 1
         IN  [n |-> s * (n \div g), d |-> s * (d \div g)]

Zero == [n |-> 0, d |-> 1]

FAdd(x, y) ==
    IF IsNaN(x) \/ IsNaN(y) THEN NaN
    ELSE Frac(x.n * y.d + y.n * x.d, x.d * y.d)

FMul(x, y) ==
    IF IsNaN(x) \/ IsNaN(y) THEN NaN ELSE Frac(x.n * y.n, x.d * y.d)

\* float division: x / 0 with x = 0 is NaN (the only zero divisor the
\* reducer can meet has a zero dividend).
FDiv(x, y) ==
    IF IsNaN(x) \/ IsNaN(y) \/ y.n = 0 THEN NaN ELSE Frac(x.n * y.d, x.d * y.n)

\* tl.exp(a - b) for log-domain a, b held by their exponentials
ExpDiff(a, b) == Frac(a, b)

\* tl.cdiv and triton.next_power_of_2
CDiv(a, b) == (a + b - 1) \div b

RECURSIVE NextPow2From(_, _)
NextPow2From(p, n) == IF p >= n THEN p ELSE NextPow2From(2 * p, n)

NextPowerOf2(n) == NextPow2From(1, n)

VARIABLES
    \* one grid unit of _fwd_kernel_stage2_asm
    cur_kv_seq_len, NUM_KV_SPLITS, mgc, kv_weight, kv_value, Mid_O, Mid_lse,
    split_kv_id, e_sum, e_max, acc, reads, pc, O,
    \* a call of mla_decode_fwd, mla_prefill_fwd or get_meta_param
    fn, logit_cap, sm_scale, nhead, max_seqlen_q, num_kv_splits, bs, total_kv,
    kv_indptr, cu_num, cur_batch, logits, attn_lse, kernel_calls,
    stage2_launched, ret, err,
    \* the launch grid of stage 2
    qo_indptr, pending, written,
    \* the split ranges computed so far
    ranges

kvars == <<cur_kv_seq_len, NUM_KV_SPLITS, mgc, kv_weight, kv_value, Mid_O,
           Mid_lse, split_kv_id, e_sum, e_max, acc, reads, pc, O>>

hvars == <<fn, logit_cap, sm_scale, nhead, max_seqlen_q, num_kv_splits, bs,
           total_kv, kv_indptr, cu_num, cur_batch, logits, attn_lse,
           kernel_calls, stage2_launched, ret, err>>

gvars == <<qo_indptr, pending, written>>

vars == <<kvars, hvars, gvars, ranges>>

\* ------------------------------------------------ split ranges (stage 1, 2)
KvLenPerSplitFloor(len, n, m) == Max(m, len \div n)

\* kv_len_per_split = tl.maximum(mgc, tl.cdiv(cur_kv_seq_len, NUM_KV_SPLITS))
KvLenPerSplit(len, n, m) == Max(m, CDiv(len, n))

\* split_kv_start = kv_len_per_split * split_kv_id
SplitKvStart(len, n, m, s) == KvLenPerSplit(len, n, m) * s

\* split_kv_end = tl.minimum(split_kv_start + kv_len_per_split, cur_kv_seq_len)
SplitKvEnd(len, n, m, s) ==
    Min(SplitKvStart(len, n, m, s) + KvLenPerSplit(len, n, m), len)

SplitTakenLoose(len, n, m, s) ==
    SplitKvEnd(len, n, m, s) >= SplitKvStart(len, n, m, s)

\* if split_kv_end > split_kv_start:
SplitTaken(len, n, m, s) ==
    SplitKvEnd(len, n, m, s) > SplitKvStart(len, n, m, s)

\* ------------------------------------------- stage 1 (external kernel)
\* exp(logit) and value lane d of KV position k
WeightAt(w, k) == 1 + (k % w)

ValueAt(v, k, d) == (k + d) % (v + 1)

RECURSIVE SumW(_, _, _)
SumW(w, a, b) == IF a >= b THEN 0 ELSE WeightAt(w, a) + SumW(w, a + 1, b)

RECURSIVE SumWV(_, _, _, _, _)
SumWV(w, v, d, a, b) ==
    IF a >= b THEN 0
    ELSE WeightAt(w, a) * ValueAt(v, a, d) + SumWV(w, v, d, a + 1, b)

\* softmax-weighted output of the KV range [a, b), one fraction per lane
AttnOut(w, v, a, b) == [d \in 0..(Lv - 1) |-> Frac(SumWV(w, v, d, a, b), SumW(w, a, b))]

\* what an empty split's slot may hold: torch.empty leaves it unwritten
PoisonSet ==
    {[o |-> [d \in 0..(Lv - 1) |-> NaN], lse |-> 0],
     [o |-> [d \in 0..(Lv - 1) |-> Frac(9, 1)], lse |-> 99]}

Stage1O(w, v, len, n, m, p) ==
    [s \in 0..(n - 1) |->
        IF SplitKvEnd(len, n, m, s) > SplitKvStart(len, n, m, s)
        THEN AttnOut(w, v, SplitKvStart(len, n, m, s), SplitKvEnd(len, n, m, s))
        ELSE p.o]

Stage1Lse(w, len, n, m, p) ==
    [s \in 0..(n - 1) |->
        IF SplitKvEnd(len, n, m, s) > SplitKvStart(len, n, m, s)
        THEN SumW(w, SplitKvStart(len, n, m, s), SplitKvEnd(len, n, m, s))
        ELSE p.lse]

\* ------------------------------------------------------ stage 2 reducer
BLOCK_DV == NextPowerOf2(Lv)

\* tl.load(Mid_O + offs_v + split_kv_id * stride_mid_os * Lv, mask=mask_d, other=0.0)
LoadTv(mo, s) == [d \in 0..(BLOCK_DV - 1) |-> IF d < Lv THEN mo[s][d] ELSE Zero]

OnlineMergeNoRescale(st, tv, tlogic) ==
    LET n_e_max == Max(tlogic, st.e_max)
        exp_logic == ExpDiff(tlogic, n_e_max)
    IN  [acc |-> [d \in 0..(BLOCK_DV - 1) |-> FAdd(st.acc[d], FMul(exp_logic, tv[d]))],
         e_sum |-> FAdd(st.e_sum, exp_logic),
         e_max |-> n_e_max]

\* the body of the if: n_e_max, old_scale, acc, exp_logic, e_sum, e_max
OnlineMerge(st, tv, tlogic) ==
    LET n_e_max == Max(tlogic, st.e_max)
        old_scale == ExpDiff(st.e_max, n_e_max)
        exp_logic == ExpDiff(tlogic, n_e_max)
    IN  [acc |-> [d \in 0..(BLOCK_DV - 1) |->
                    FAdd(FMul(st.acc[d], old_scale), FMul(exp_logic, tv[d]))],
         e_sum |-> FAdd(FMul(st.e_sum, old_scale), exp_logic),
         e_max |-> n_e_max]

\* the unit's locals before the loop: e_sum, e_max, acc
UnitLocals ==
    /\ split_kv_id = 0
    /\ e_sum = Zero
    /\ e_max = 0
    /\ acc = [d \in 0..(BLOCK_DV - 1) |-> Zero]
    /\ reads = {}

\* torch.empty((total_q, nhead, v_head_dim)).fill_(-1)
CallerFill == [d \in 0..(Lv - 1) |-> Frac(-1, 1)]

\* no reducer unit running
KernelIdle ==
    /\ cur_kv_seq_len = 0
    /\ NUM_KV_SPLITS = 0
    /\ mgc = 0
    /\ kv_weight = 1
    /\ kv_value = 0
    /\ Mid_O = <<>>
    /\ Mid_lse = <<>>
    /\ UnitLocals
    /\ O = CallerFill

\* no call in progress
HostIdle ==
    /\ fn = "none"
    /\ logit_cap = 0
    /\ sm_scale = "None"
    /\ nhead = 0
    /\ max_seqlen_q = 0
    /\ num_kv_splits = None
    /\ bs = 0
    /\ total_kv = 0
    /\ kv_indptr = <<0>>
    /\ cu_num = 0
    /\ cur_batch = 0
    /\ logits = NoBuffer
    /\ attn_lse = NoBuffer
    /\ kernel_calls = 0
    /\ stage2_launched = FALSE
    /\ ret = NoBuffer
    /\ err = "none"

\* no grid launched
GridIdle ==
    /\ qo_indptr = <<0>>
    /\ pending = {}
    /\ written = {}

KernelInit ==
    /\ cur_kv_seq_len \in 0..MaxKvLen
    /\ NUM_KV_SPLITS \in 1..MaxSplits
    /\ mgc \in {MgcDefault, MgcSingleToken}
    /\ kv_weight \in 1..MaxWeight
    /\ kv_value \in 0..MaxValue
    /\ \E p \in PoisonSet :
          /\ Mid_O = Stage1O(kv_weight, kv_value, cur_kv_seq_len, NUM_KV_SPLITS, mgc, p)
          /\ Mid_lse = Stage1Lse(kv_weight, cur_kv_seq_len, NUM_KV_SPLITS, mgc, p)
    /\ UnitLocals
    /\ pc = "loop"
    /\ O = CallerFill

\* one iteration of: for split_kv_id in range(0, NUM_KV_SPLITS)
Stage2Iter ==
    /\ pc = "loop"
    /\ split_kv_id < NUM_KV_SPLITS
    /\ IF SplitTaken(cur_kv_seq_len, NUM_KV_SPLITS, mgc, split_kv_id)
       THEN LET m == OnlineMerge([acc |-> acc, e_sum |-> e_sum, e_max |-> e_max],
                                 LoadTv(Mid_O, split_kv_id), Mid_lse[split_kv_id])
            IN  /\ acc' = m.acc
                /\ e_sum' = m.e_sum
                /\ e_max' = m.e_max
                /\ reads' = reads \cup {split_kv_id}
       ELSE UNCHANGED <<acc, e_sum, e_max, reads>>
    /\ split_kv_id' = split_kv_id + 1
    /\ UNCHANGED <<cur_kv_seq_len, NUM_KV_SPLITS, mgc, kv_weight, kv_value,
                   Mid_O, Mid_lse, pc, O, hvars, gvars, ranges>>

\* tl.store(O + ..., acc / e_sum, mask=mask_d)
Stage2Store ==
    /\ pc = "loop"
    /\ split_kv_id = NUM_KV_SPLITS
    /\ O' = [d \in 0..(Lv - 1) |-> FDiv(acc[d], e_sum)]
    /\ pc' = "done"
    /\ UNCHANGED <<cur_kv_seq_len, NUM_KV_SPLITS, mgc, kv_weight, kv_value,
                   Mid_O, Mid_lse, split_kv_id, e_sum, e_max, acc, reads,
                   hvars, gvars, ranges>>

KernelNext == Stage2Iter \/ Stage2Store

Init == KernelInit /\ HostIdle /\ GridIdle /\ ranges = <<>>

Next == KernelNext

\* One grid unit of the reducer that has passed its position guard (the guard
\* and the store address are SpecGrid's), launched on every split count, chunk
\* floor and KV length the host can pass, over partials written by stage 1.
Spec == Init /\ [][Next]_vars

\* -------------------------------------------------- split ranges alone
SplitInit ==
    /\ cur_kv_seq_len \in 0..MaxKvLen
    /\ NUM_KV_SPLITS \in 1..MaxSplits
    /\ mgc \in (1..MaxSmallMgc) \cup {MgcDefault, MgcSingleToken}
    /\ kv_weight = 1
    /\ kv_value = 0
    /\ Mid_O = <<>>
    /\ Mid_lse = <<>>
    /\ UnitLocals
    /\ O = CallerFill
    /\ pc = "split"
    /\ ranges = <<>>
    /\ HostIdle
    /\ GridIdle

\* split_kv_start and split_kv_end of one iteration of the loop
SplitRange ==
    /\ pc = "split"
    /\ split_kv_id < NUM_KV_SPLITS
    /\ ranges' = Append(ranges,
                    <<SplitKvStart(cur_kv_seq_len, NUM_KV_SPLITS, mgc, split_kv_id),
                      SplitKvEnd(cur_kv_seq_len, NUM_KV_SPLITS, mgc, split_kv_id)>>)
    /\ split_kv_id' = split_kv_id + 1
    /\ UNCHANGED <<cur_kv_seq_len, NUM_KV_SPLITS, mgc, kv_weight, kv_value,
                   Mid_O, Mid_lse, e_sum, e_max, acc, reads, pc, O, hvars, gvars>>

\* The split ranges of the loop for every length, split count and chunk floor.
SpecSplit == SplitInit /\ [][SplitRange]_vars

\* ------------------------------------------------------- get_meta_param
\* a / b < c / d for a, c >= 0 and b, d > 0, without forming a * d
RECURSIVE FracLess(_, _, _, _)
FracLess(a, b, c, d) ==
    LET qa == a \div b
        qc == c \div d
        ra == a % b
        rc == c % d
    IN  IF qa # qc THEN qa < qc
        ELSE IF rc = 0 THEN FALSE
        ELSE IF ra = 0 THEN TRUE
        ELSE FracLess(d, rc, b, ra)

FLess(x, y) == FracLess(x.n, x.d, y.n, y.d)

\* bs * i / ((bs * i + cu_num - 1) // cu_num * cu_num) * avg_kv / (avg_kv + overhead * i)
Score(b, t, cu, i) ==
    LET avg_kv == Frac(t, b)
        overhead == Frac(OverheadTenths, 10)
        util == Frac(b * i, ((b * i + cu - 1) \div cu) * cu)
    IN  FDiv(FMul(util, avg_kv), FAdd(avg_kv, FMul(overhead, Frac(i, 1))))

\* tmp = [(score, i) for i in range(1, 17)]
Tmp(b, t, cu) == [i \in 1..MaxSplits |-> <<Score(b, t, cu, i), i>>]

RECURSIVE InsertDescUnstable(_, _)
InsertDescUnstable(sorted, x) ==
    IF sorted = <<>> THEN <<x>>
    ELSE IF ~FLess(x[1], Head(sorted)[1]) THEN <<x>> \o sorted
    ELSE <<Head(sorted)>> \o InsertDescUnstable(Tail(sorted), x)

\* sorted(..., reverse=True) is stable: x goes after every element whose key
\* is not smaller than its own
RECURSIVE InsertDesc(_, _)
InsertDesc(sorted, x) ==
    IF sorted = <<>> THEN <<x>>
    ELSE IF FLess(Head(sorted)[1], x[1]) THEN <<x>> \o sorted
    ELSE <<Head(sorted)>> \o InsertDesc(Tail(sorted), x)

RECURSIVE SortedDesc(_, _)
SortedDesc(tmp, k) ==
    IF k = 0 THEN <<>> ELSE InsertDesc(SortedDesc(tmp, k - 1), tmp[k])

\* get_mgc = {16: 16, 128: 16}
GetMgcKeys == {16, 128}

MgcOfLooseOverride(h, msq) ==
    IF msq = 1 \/ h = 16 THEN MgcSingleToken ELSE MgcDefault

\* mgc = get_mgc[nhead]; if max_seqlen_q == 1 and nhead == 16: mgc = 64
MgcOf(h, msq) == IF msq = 1 /\ h = 16 THEN MgcSingleToken ELSE MgcDefault

\* the value returned, or the AssertionError raised
GetMetaParam(nks, b, t, h, msq, cu) ==
    LET splits == IF nks = None
                  THEN SortedDesc(Tmp(b, t, cu), MaxSplits)[1][2]
                  ELSE nks
    IN  IF h \notin GetMgcKeys
        THEN [ok |-> FALSE, num_kv_splits |-> splits, mgc |-> 0]
        ELSE [ok |-> TRUE, num_kv_splits |-> splits, mgc |-> MgcOf(h, msq)]

NheadValues == {16, 32, 128}

MetaInit ==
    /\ fn = "get_meta_param"
    /\ num_kv_splits \in {None} \cup (1..MaxSplitsArg)
    /\ bs \in 1..MaxBs
    /\ total_kv \in 0..MaxTotalKv
    /\ nhead \in NheadValues
    /\ max_seqlen_q \in 1..MaxSeqlenQ
    /\ cu_num \in 1..MaxCu
    /\ pc = "meta_call"
    /\ logit_cap = 0
    /\ sm_scale = "None"
    /\ kv_indptr = <<0>>
    /\ cur_batch = 0
    /\ logits = NoBuffer
    /\ attn_lse = NoBuffer
    /\ kernel_calls = 0
    /\ stage2_launched = FALSE
    /\ ret = NoBuffer
    /\ err = "none"
    /\ KernelIdle
    /\ GridIdle
    /\ ranges = <<>>

\* get_meta_param(num_kv_splits, bs, total_kv, nhead, max_seqlen_q)
CallGetMetaParam ==
    /\ pc = "meta_call"
    /\ LET r == GetMetaParam(num_kv_splits, bs, total_kv, nhead, max_seqlen_q, cu_num)
       IN  IF r.ok
           THEN /\ ret' = [num_kv_splits |-> r.num_kv_splits, mgc |-> r.mgc]
                /\ err' = err
                /\ pc' = "meta_returned"
           ELSE /\ err' = "AssertionError: nhead not supported"
                /\ ret' = ret
                /\ pc' = "meta_raised"
    /\ UNCHANGED <<cur_kv_seq_len, NUM_KV_SPLITS, mgc, kv_weight, kv_value, Mid_O,
                   Mid_lse, split_kv_id, e_sum, e_max, acc, reads, O,
                   fn, logit_cap, sm_scale, nhead, max_seqlen_q, num_kv_splits, bs,
                   total_kv, kv_indptr, cu_num, cur_batch, logits, attn_lse,
                   kernel_calls, stage2_launched, gvars, ranges>>

\* Calls of get_meta_param on every shape within the bounds.
SpecMeta == MetaInit /\ [][CallGetMetaParam]_vars

\* ------------------------------------------ mla_decode_fwd, mla_prefill_fwd
\* kv_indptr of b sequences: starts at 0, each sequence 0..MaxHostKv long
RECURSIVE KvIndptrs(_)
KvIndptrs(b) ==
    IF b = 0 THEN {<<0>>}
    ELSE {Append(q, q[b] + l) : q \in KvIndptrs(b - 1), l \in 0..MaxHostKv}

\* total_s: every sequence of the batch issues max_seqlen_q queries
TotalS == bs * max_seqlen_q

HostInit ==
    /\ fn \in {"mla_decode_fwd", "mla_prefill_fwd"}
    /\ pc = "entry"
    /\ logit_cap \in {0, 1}
    /\ sm_scale \in {"None", "given"}
    /\ nhead \in NheadValues
    /\ max_seqlen_q \in 1..MaxSeqlenQ
    /\ num_kv_splits \in {None} \cup (1..MaxSplitsArg)
    /\ bs \in 1..MaxHostBs
    /\ kv_indptr \in KvIndptrs(bs)
    /\ total_kv = kv_indptr[bs + 1]
    /\ cu_num \in 1..MaxHostCu
    /\ fn = "mla_prefill_fwd" => (num_kv_splits = None /\ cu_num = 1)
    /\ cur_batch \in 0..(bs - 1)
    /\ logits = NoBuffer
    /\ attn_lse = NoBuffer
    /\ kernel_calls = 0
    /\ stage2_launched = FALSE
    /\ ret = NoBuffer
    /\ err = "none"
    /\ cur_kv_seq_len = 0
    /\ NUM_KV_SPLITS = 0
    /\ mgc = 0
    /\ kv_weight = MaxWeight
    /\ kv_value = MaxValue
    /\ Mid_O = <<>>
    /\ Mid_lse = <<>>
    /\ UnitLocals
    /\ O = CallerFill
    /\ GridIdle
    /\ ranges = <<>>

\* KV length of the tracked sequence: kv_indptr[b + 1] - kv_indptr[b]
SeqKvLen == kv_indptr[cur_batch + 2] - kv_indptr[cur_batch + 1]

unit == <<cur_kv_seq_len, NUM_KV_SPLITS, split_kv_id, e_sum, e_max, acc, reads>>

args == <<fn, logit_cap, nhead, max_seqlen_q, bs, total_kv, kv_indptr, cu_num,
          cur_batch, kv_weight, kv_value>>

\* assert logit_cap <= 0; sm_scale default
DecodeEntry ==
    /\ fn = "mla_decode_fwd"
    /\ pc = "entry"
    /\ IF logit_cap <= 0
       THEN /\ pc' = "meta"
            /\ sm_scale' = IF sm_scale = "None" THEN "default" ELSE sm_scale
            /\ err' = err
       ELSE /\ pc' = "raised"
            /\ err' = "AssertionError: logit_cap"
            /\ sm_scale' = sm_scale
    /\ UNCHANGED <<args, unit, mgc, Mid_O, Mid_lse, O, num_kv_splits, logits,
                   attn_lse, kernel_calls, stage2_launched, ret, gvars, ranges>>

\* num_kv_splits, mgc = get_meta_param(num_kv_splits, bs, total_kv, nhead, max_seqlen_q)
DecodeMeta ==
    /\ fn = "mla_decode_fwd"
    /\ pc = "meta"
    /\ LET r == GetMetaParam(num_kv_splits, bs, total_kv, nhead, max_seqlen_q, cu_num)
       IN  IF r.ok
           THEN /\ num_kv_splits' = r.num_kv_splits
                /\ mgc' = r.mgc
                /\ pc' = "alloc"
                /\ err' = err
           ELSE /\ pc' = "raised"
                /\ err' = "AssertionError: nhead not supported"
                /\ UNCHANGED <<num_kv_splits, mgc>>
    /\ UNCHANGED <<args, unit, sm_scale, Mid_O, Mid_lse, O, logits, attn_lse,
                   kernel_calls, stage2_launched, ret, gvars, ranges>>

\* logits: scratch, or a view of o; attn_lse = torch.empty(...)
DecodeAlloc ==
    /\ fn = "mla_decode_fwd"
    /\ pc = "alloc"
    /\ IF nhead = 16 /\ max_seqlen_q = 1
       THEN /\ logits' = [alias_o |-> FALSE,
                          shape |-> <<TotalS, num_kv_splits, nhead, Lv>>]
            /\ pc' = "stage1"
            /\ err' = err
       ELSE IF nhead \in {16, 128}
       THEN /\ logits' = [alias_o |-> (num_kv_splits = 1),
                          shape |-> <<TotalS, num_kv_splits, nhead, Lv>>]
            /\ pc' = "stage1"
            /\ err' = err
       ELSE /\ logits' = logits
            /\ pc' = "raised"
            /\ err' = "AssertionError: nhead not supported"
    /\ attn_lse' = IF pc' = "stage1"
                   THEN [alias_o |-> FALSE, shape |-> <<TotalS, num_kv_splits, nhead, 1>>]
                   ELSE attn_lse
    /\ UNCHANGED <<args, unit, mgc, sm_scale, Mid_O, Mid_lse, O, num_kv_splits,
                   kernel_calls, stage2_launched, ret, gvars, ranges>>

\* aiter.mla_decode_stage1_asm_fwd(..., logits, attn_lse): the slots of the
\* tracked (query, head); through a view the single slot is o itself, and a
\* slot stage 1 does not write keeps what the caller left in o
DecodeStage1 ==
    /\ fn = "mla_decode_fwd"
    /\ pc = "stage1"
    /\ kernel_calls' = kernel_calls + 1
    /\ \E p \in PoisonSet \cup {[o |-> O, lse |-> 0]} :
          /\ logits.alias_o \/ p \in PoisonSet
          /\ Mid_O' = Stage1O(kv_weight, kv_value, SeqKvLen, num_kv_splits, mgc, p)
          /\ Mid_lse' = Stage1Lse(kv_weight, SeqKvLen, num_kv_splits, mgc, p)
    /\ O' = IF logits.alias_o THEN Mid_O'[0] ELSE O
    /\ pc' = "branch"
    /\ UNCHANGED <<args, unit, mgc, sm_scale, num_kv_splits, logits, attn_lse,
                   stage2_launched, ret, err, gvars, ranges>>

ShortcutOnSplitsOnly(n, msq, h) == n = 1

\* if num_kv_splits == 1 and not (max_seqlen_q == 1 and nhead == 16):
Shortcut(n, msq, h) == n = 1 /\ ~(msq = 1 /\ h = 16)

\* return logits.view(total_s, nhead, v_head_dim), attn_lse; or launch
\* _fwd_kernel_stage2_asm[grid] (the unit of the tracked query and head)
DecodeBranch ==
    /\ fn = "mla_decode_fwd"
    /\ pc = "branch"
    /\ IF Shortcut(num_kv_splits, max_seqlen_q, nhead)
       THEN /\ ret' = [out |-> [alias_o |-> logits.alias_o, shape |-> <<TotalS, nhead, Lv>>],
                       lse |-> attn_lse]
            /\ pc' = "returned"
            /\ UNCHANGED <<unit, stage2_launched>>
       ELSE /\ stage2_launched' = TRUE
            /\ NUM_KV_SPLITS' = num_kv_splits
            /\ cur_kv_seq_len' = SeqKvLen
            /\ split_kv_id' = 0
            /\ e_sum' = Zero
            /\ e_max' = 0
            /\ acc' = [d \in 0..(BLOCK_DV - 1) |-> Zero]
            /\ reads' = {}
            /\ pc' = "loop"
            /\ ret' = ret
    /\ UNCHANGED <<args, mgc, sm_scale, Mid_O, Mid_lse, O, num_kv_splits, logits,
                   attn_lse, kernel_calls, err, gvars, ranges>>

\* return logits, attn_lse
DecodeReturn ==
    /\ fn = "mla_decode_fwd"
    /\ pc = "done"
    /\ ret' = [out |-> logits, lse |-> attn_lse]
    /\ pc' = "returned"
    /\ UNCHANGED <<args, unit, mgc, sm_scale, Mid_O, Mid_lse, O, num_kv_splits,
                   logits, attn_lse, kernel_calls, stage2_launched, err, gvars,
                   ranges>>

\* assert logit_cap <= 0; qk_head_dim is read before it is assigned when
\* sm_scale is None
PrefillEntry ==
    /\ fn = "mla_prefill_fwd"
    /\ pc = "entry"
    /\ IF logit_cap > 0
       THEN pc' = "raised" /\ err' = "AssertionError: logit_cap"
       ELSE IF sm_scale = "None"
       THEN pc' = "raised" /\ err' = "UnboundLocalError: qk_head_dim"
       ELSE pc' = "alloc" /\ err' = err
    /\ UNCHANGED <<args, unit, mgc, sm_scale, Mid_O, Mid_lse, O, num_kv_splits,
                   logits, attn_lse, kernel_calls, stage2_launched, ret, gvars,
                   ranges>>

\* num_kv_splits = 1; logits = o.view(...); attn_lse = torch.empty(...)
PrefillAlloc ==
    /\ fn = "mla_prefill_fwd"
    /\ pc = "alloc"
    /\ num_kv_splits' = 1
    /\ logits' = [alias_o |-> TRUE, shape |-> <<TotalS, 1, nhead, Lv>>]
    /\ attn_lse' = [alias_o |-> FALSE, shape |-> <<TotalS, 1, nhead, 1>>]
    /\ pc' = "kernel"
    /\ UNCHANGED <<args, unit, mgc, sm_scale, Mid_O, Mid_lse, O, kernel_calls,
                   stage2_launched, ret, err, gvars, ranges>>

\* aiter.mla_prefill_asm_fwd(..., logits, attn_lse) writes o through the view
PrefillKernel ==
    /\ fn = "mla_prefill_fwd"
    /\ pc = "kernel"
    /\ kernel_calls' = kernel_calls + 1
    /\ \E p \in PoisonSet \cup {[o |-> O, lse |-> 0]} :
          /\ Mid_O' = Stage1O(kv_weight, kv_value, SeqKvLen, 1, 1, p)
          /\ Mid_lse' = Stage1Lse(kv_weight, SeqKvLen, 1, 1, p)
    /\ O' = Mid_O'[0]
    /\ pc' = "return"
    /\ UNCHANGED <<args, unit, mgc, sm_scale, num_kv_splits, logits, attn_lse,
                   stage2_launched, ret, err, gvars, ranges>>

\* return o.view(bs, nhead, v_head_dim), attn_lse
PrefillReturn ==
    /\ fn = "mla_prefill_fwd"
    /\ pc = "return"
    /\ ret' = [out |-> [alias_o |-> TRUE, shape |-> <<TotalS, nhead, Lv>>],
               lse |-> attn_lse]
    /\ pc' = "returned"
    /\ UNCHANGED <<args, unit, mgc, sm_scale, Mid_O, Mid_lse, O, num_kv_splits,
                   logits, attn_lse, kernel_calls, stage2_launched, err, gvars,
                   ranges>>

HostNext ==
    \/ DecodeEntry
    \/ DecodeMeta
    \/ DecodeAlloc
    \/ DecodeStage1
    \/ DecodeBranch
    \/ Stage2Iter
    \/ Stage2Store
    \/ DecodeReturn
    \/ PrefillEntry
    \/ PrefillAlloc
    \/ PrefillKernel
    \/ PrefillReturn

\* One call of an entry point, followed on one (query, head) of the batch.
SpecHost == HostInit /\ [][HostNext]_vars

\* ------------------------------------------------- the stage-2 launch grid
\* qo_indptr of b sequences: starts at 0, each sequence 0..MaxQLen queries
RECURSIVE QoIndptrs(_)
QoIndptrs(b) ==
    IF b = 0 THEN {<<0>>}
    ELSE {Append(q, q[b] + l) : q \in QoIndptrs(b - 1), l \in 0..MaxQLen}

RECURSIVE MaxQo(_, _)
MaxQo(q, b) == IF b = 0 THEN 0 ELSE Max(q[b + 1] - q[b], MaxQo(q, b - 1))

\* grid = (bs, nhead, max_seqlen_q), max_seqlen_q the longest query range
GridInit ==
    /\ fn = "_fwd_kernel_stage2_asm[grid]"
    /\ pc = "grid"
    /\ bs \in 1..MaxGridBs
    /\ nhead = GridHeads
    /\ qo_indptr \in QoIndptrs(bs)
    /\ max_seqlen_q = MaxQo(qo_indptr, bs)
    /\ pending = {<<b, h, o>> : b \in 0..(bs - 1), h \in 0..(nhead - 1),
                                o \in 0..(max_seqlen_q - 1)}
    /\ written = {}
    /\ logit_cap = 0
    /\ sm_scale = "None"
    /\ num_kv_splits = None
    /\ total_kv = 0
    /\ kv_indptr = <<0>>
    /\ cu_num = 0
    /\ cur_batch = 0
    /\ logits = NoBuffer
    /\ attn_lse = NoBuffer
    /\ kernel_calls = 0
    /\ stage2_launched = TRUE
    /\ ret = NoBuffer
    /\ err = "none"
    /\ KernelIdle
    /\ ranges = <<>>

\* one unit (program_id 0, 1, 2) from its position guard to the address of
\* its tl.store: row cur_qo, head cur_head of O
UnitRun(u) ==
    /\ pc = "grid"
    /\ u \in pending
    /\ pending' = pending \ {u}
    /\ LET cur_qo_start == qo_indptr[u[1] + 1]
           cur_qo_end == qo_indptr[u[1] + 2]
           cur_qo == cur_qo_start + u[3]
       IN  IF cur_qo > cur_qo_end
           THEN written' = written
           ELSE written' = written \cup {[row |-> cur_qo, head |-> u[2], by |-> u]}
    /\ UNCHANGED <<kvars, hvars, qo_indptr, ranges>>

GridNext == \E u \in pending : UnitRun(u)

\* The units of one launch of the reducer, run in any order.
SpecGrid == GridInit /\ [][GridNext]_vars

\* ------------------------------------------------------------- claims
NonEmptySplits ==
    {s \in 0..(NUM_KV_SPLITS - 1) :
        Min(Max(mgc, CDiv(cur_kv_seq_len, NUM_KV_SPLITS)) * (s + 1), cur_kv_seq_len)
            > Max(mgc, CDiv(cur_kv_seq_len, NUM_KV_SPLITS)) * s}

\* C1: for every kv length >= 1, mgc in {16, 64} and 1..16 splits, the value
\* the reducer stores, acc / e_sum, is the softmax-weighted output over the
\* whole range [0, kv_len): the same for every split count.
C1_ReductionCorrect ==
    (pc = "done" /\ cur_kv_seq_len >= 1) =>
        O = AttnOut(kv_weight, kv_value, 0, cur_kv_seq_len)

C1_Witness ==
    /\ pc = "done"
    /\ Cardinality(reads) >= 3
    /\ kv_weight >= 2
    /\ kv_value >= 1
    /\ \E s \in reads : \E t \in reads : s < t /\ Mid_lse[s] < Mid_lse[t]
    /\ O = AttnOut(kv_weight, kv_value, 0, cur_kv_seq_len)

\* C4: a zero-length sequence gets a defined output, and the reducer never
\* divides acc by an e_sum that is 0.
C4_ZeroLengthHandled ==
    (pc = "done" /\ cur_kv_seq_len = 0) =>
        (e_sum.n # 0 /\ \A d \in 0..(Lv - 1) : ~IsNaN(O[d]))

\* C9: an iteration whose split range is empty leaves e_max, e_sum and acc
\* unchanged and loads nothing: only slots of non-empty splits are ever read.
C9_EmptySplitSkipped ==
    [][(pc = "loop" /\ split_kv_id < NUM_KV_SPLITS /\ split_kv_id \notin NonEmptySplits)
        => (e_max' = e_max /\ e_sum' = e_sum /\ acc' = acc /\ reads' = reads
            /\ reads \subseteq NonEmptySplits)]_vars

C9_Witness ==
    /\ pc = "done"
    /\ cur_kv_seq_len >= 1
    /\ reads # {}
    /\ reads # 0..(NUM_KV_SPLITS - 1)
    /\ \E s \in (0..(NUM_KV_SPLITS - 1)) \ reads : Mid_lse[s] = 99
    /\ \A d \in 0..(Lv - 1) : ~IsNaN(O[d])

\* C10: the non-empty split ranges are pairwise disjoint, their union is
\* exactly [0, cur_kv_seq_len), the non-empty splits are a prefix of the split
\* ids, and some split is non-empty whenever cur_kv_seq_len >= 1.
C10_RangesPartition ==
    (pc = "split" /\ split_kv_id = NUM_KV_SPLITS) =>
        LET ne == {i \in 1..NUM_KV_SPLITS : ranges[i][2] > ranges[i][1]}
            cover(i) == ranges[i][1]..(ranges[i][2] - 1)
        IN  /\ \A i \in ne : \A j \in ne : i # j => cover(i) \cap cover(j) = {}
            /\ UNION {cover(i) : i \in ne} = 0..(cur_kv_seq_len - 1)
            /\ \A i \in 1..NUM_KV_SPLITS : i \in ne => \A j \in 1..i : j \in ne
            /\ cur_kv_seq_len >= 1 => ne # {}

C10_Witness ==
    /\ pc = "split"
    /\ split_kv_id = NUM_KV_SPLITS
    /\ Cardinality({i \in 1..NUM_KV_SPLITS : ranges[i][2] > ranges[i][1]}) >= 3
    /\ \E i \in 1..NUM_KV_SPLITS : ranges[i][2] <= ranges[i][1]
    /\ \E i \in 1..NUM_KV_SPLITS :
          ranges[i][2] > ranges[i][1] /\ ranges[i][2] - ranges[i][1] < ranges[1][2]

\* the i of 1..16 get_meta_param is to pick: a maximiser of the score, the
\* lowest one among equals
BestSplit(i) ==
    /\ \A j \in 1..MaxSplits :
          ~FLess(Score(bs, total_kv, cu_num, i), Score(bs, total_kv, cu_num, j))
    /\ \A j \in 1..(i - 1) :
          FLess(Score(bs, total_kv, cu_num, j), Score(bs, total_kv, cu_num, i))

\* C6: a given num_kv_splits is returned unchanged; otherwise the split count
\* returned is an i of 1..16 that maximises score(i), the lowest such i.
C6_SplitCount ==
    pc = "meta_returned" =>
        IF num_kv_splits # None
        THEN ret.num_kv_splits = num_kv_splits
        ELSE ret.num_kv_splits \in 1..MaxSplits /\ BestSplit(ret.num_kv_splits)

C6_Witness ==
    /\ pc = "meta_returned"
    /\ num_kv_splits = None
    /\ ret.num_kv_splits = 3
    /\ total_kv > 0

\* C7: for nhead in {16, 128} the mgc returned is 16, except that it is 64
\* exactly when max_seqlen_q == 1 and nhead == 16; for any other nhead the
\* call raises and returns nothing, whatever num_kv_splits and max_seqlen_q.
C7_MinChunkSize ==
    /\ pc = "meta_returned" =>
          /\ nhead \in {16, 128}
          /\ ret.mgc = IF max_seqlen_q = 1 /\ nhead = 16 THEN 64 ELSE 16
    /\ pc = "meta_raised" => (nhead \notin {16, 128} /\ ret = NoBuffer)
    /\ (pc # "meta_call" /\ nhead \notin {16, 128}) => pc = "meta_raised"

C7_Witness ==
    /\ pc = "meta_returned"
    /\ bs = 1
    /\ total_kv = 21
    /\ nhead = 16
    /\ max_seqlen_q = 1
    /\ ret.mgc = 64

\* what the reducer stores for one (query, head) when launched with
\* NUM_KV_SPLITS = 1 on the partials mo, ml
Stage2SingleSplit(mo, ml, len, m) ==
    LET st0 == [acc |-> [d \in 0..(BLOCK_DV - 1) |-> Zero], e_sum |-> Zero, e_max |-> 0]
        st == IF Min(Max(m, len), len) > 0
              THEN OnlineMerge(st0, LoadTv(mo, 0), ml[0])
              ELSE st0
    IN  [d \in 0..(Lv - 1) |-> FDiv(st.acc[d], st.e_sum)]

C5_ShortcutEquivalent ==
    (/\ fn = "mla_decode_fwd"
     /\ pc \in {"branch", "returned"}
     /\ num_kv_splits = 1
     /\ ~(max_seqlen_q = 1 /\ nhead = 16)) =>
        /\ logits.alias_o
        /\ ~stage2_launched
        /\ pc = "returned" => O = Stage2SingleSplit(Mid_O, Mid_lse, SeqKvLen, mgc)

\* C8: a call of either entry point with logit_cap > 0 or a num_heads outside
\* {16, 128} raises before attn_lse or a logits scratch is allocated and
\* before the external kernel is invoked, and returns nothing.
C8_FailFast ==
    (/\ fn \in {"mla_decode_fwd", "mla_prefill_fwd"}
     /\ (logit_cap > 0 \/ nhead \notin {16, 128})) =>
        /\ logits = NoBuffer
        /\ attn_lse = NoBuffer
        /\ kernel_calls = 0
        /\ ret = NoBuffer
        /\ pc # "returned"

\* C2: any two distinct grid units that pass the position guard and reach the
\* final store write to different (query row, head) locations of O.
C2_DisjointWrites ==
    \A w1 \in written : \A w2 \in written :
        w1.by # w2.by => <<w1.row, w1.head>> # <<w2.row, w2.head>>

====
